---- MODULE Spec2Model ----
(***************************************************************************)
(* Speech-turn state machine of the Aurora voice assistant:                *)
(* the useSpeechEngine hook (recognition device, synthesis device, status) *)
(* and the VoiceAssistant component (conversation log, turns).             *)
(*                                                                         *)
(* Strings are sequences of one-character strings, so that trim, join and  *)
(* concatenation are computed rather than assumed.  A Message is modelled  *)
(* by its role and content; its id and timestamp (Date.now()) are left out.*)
(* React state written after the component has unmounted is dropped, as    *)
(* React does; refs and the platform objects live on.                      *)
(***************************************************************************)
EXTENDS Integers, Sequences, FiniteSets, TLC

\* ------------------------------------------------------------- bounds
MaxTurns == 2
MaxLog == 5
MaxResults == 2

\* ------------------------------------------------------------- strings
NULL == "null"

IsSpace(c) == c \in {" ", "\n"}

RECURSIVE TrimStart(_)
TrimStart(s) ==
  IF s # <<>> /\ IsSpace(Head(s)) THEN TrimStart(Tail(s)) ELSE s

RECURSIVE TrimEnd(_)
TrimEnd(s) ==
  IF s # <<>> /\ IsSpace(s[Len(s)]) THEN TrimEnd(SubSeq(s, 1, Len(s) - 1)) ELSE s

\* String.prototype.trim
Trim(s) == TrimEnd(TrimStart(s))

\* Array.prototype.join(" ")
RECURSIVE Join(_)
Join(segs) ==
  IF segs = <<>> THEN <<>>
  ELSE IF Len(segs) = 1 THEN segs[1]
  ELSE segs[1] \o <<" ">> \o Join(Tail(segs))

\* ------------------------------------------------------------- inputs
Transcripts == { <<" ">>, <<"a", " ">> }
Results == [transcript : Transcripts, isFinal : BOOLEAN]
ResultLists == UNION { [1..n -> Results] : n \in 1..MaxResults }
\* a result delivered by an earlier event of the session
EarlierResult == [transcript |-> <<"a", " ">>, isFinal |-> TRUE]
\* a recognition event: the result list and the 0-based index of the first
\* result that is new; the results before it are earlier ones
RecognitionEvents ==
  { ev \in { [results |-> [k \in 1..i |-> EarlierResult] \o new, resultIndex |-> i] :
                new \in ResultLists, i \in 0..(MaxResults - 1) } :
      Len(ev.results) <= MaxResults }
\* what the recognizer delivers as configured (continuous = false): one result,
\* first interim, then final
SessionEvents == { [results |-> << r >>, resultIndex |-> 0] : r \in Results }
Drafts == { <<" ">>, <<"a", " ">> }
ErrorCodes == { "no-speech" }

INITIAL_PROMPT == [role |-> "assistant", content |-> <<"H", "i">>]

VARIABLES
  hasRecognition,    \* window.SpeechRecognition || window.webkitSpeechRecognition
  hasSynth,          \* "speechSynthesis" in window
  phase,             \* "init" (rendered, effect not run), "mounted", "unmounted"
  status, error, isReady,
  recognitionRef, finalHandlerRef, segmentHandlerRef,
  recState,          \* platform recognizer: inactive, starting, capturing, stopping, ending
  synthQueue,        \* utterances handed to synth.speak and not finished
  synthCancelled,    \* utterances removed by synth.cancel whose event is pending
  messages, draft, interimTranscript, isThinking,
  turn,              \* the suspended handleResponse calls
  lastOp,            \* the handler that ran last
  calls,             \* the calls that handler made
  batch,             \* the results it was given, from resultIndex on (onresult only)
  finalArgs,         \* the arguments it passed to the final-transcript callback
  segmentArgs        \* the payloads it passed to the segment callback

vars == << hasRecognition, hasSynth, phase, status, error, isReady,
           recognitionRef, finalHandlerRef, segmentHandlerRef, recState,
           synthQueue, synthCancelled, messages, draft, interimTranscript,
           isThinking, turn, lastOp, calls, batch, finalArgs, segmentArgs >>

platform == << hasRecognition, hasSynth >>
engineState == << status, error, isReady >>
refs == << recognitionRef, finalHandlerRef, segmentHandlerRef >>
synth == << synthQueue, synthCancelled >>
uiState == << messages, draft, interimTranscript, isThinking >>

TurnIds == 1..MaxTurns
FreeTurn == [pc |-> "free", reply |-> <<>>]

\* a React state setter: dropped once the component has unmounted
SetState(old, new) == IF phase = "unmounted" THEN old ELSE new

Init ==
  /\ hasRecognition \in BOOLEAN
  /\ hasSynth \in BOOLEAN
  /\ phase = "init"
  /\ status = "idle"
  /\ error = NULL
  /\ isReady = FALSE
  /\ recognitionRef = NULL
  /\ finalHandlerRef = NULL
  /\ segmentHandlerRef = NULL
  /\ recState = "inactive"
  /\ synthQueue = <<>>
  /\ synthCancelled = {}
  /\ messages = << INITIAL_PROMPT >>
  /\ draft = <<>>
  /\ interimTranscript = <<>>
  /\ isThinking = FALSE
  /\ turn = [t \in TurnIds |-> FreeTurn]
  /\ lastOp = "init"
  /\ calls = {}
  /\ batch = <<>>
  /\ finalArgs = <<>>
  /\ segmentArgs = <<>>

\* what a handler that is not recognition.onresult leaves in the call record
Ran(op, made) ==
  /\ lastOp' = op
  /\ calls' = made
  /\ batch' = <<>>
  /\ finalArgs' = <<>>
  /\ segmentArgs' = <<>>

\* ------------------------------------------------------------- useSpeechEngine
\* the effect of useSpeechEngine: probe the capability, build the recognizer
Mount ==
  /\ phase = "init"
  /\ phase' = "mounted"
  /\ IF ~hasRecognition
       THEN /\ status' = "unsupported"
            /\ UNCHANGED << isReady, recognitionRef >>
       ELSE /\ recognitionRef' = "recognition"
            /\ isReady' = TRUE
            /\ UNCHANGED status
  /\ Ran("mount", {})
  /\ UNCHANGED << platform, error, finalHandlerRef, segmentHandlerRef, recState,
                  synth, uiState, turn >>

\* the effect's cleanup; it exists only when the recognizer was built
RecognitionStop(s) ==
  CASE s = "capturing" -> "stopping"
    [] s = "starting" -> "ending"
    [] OTHER -> s

Teardown ==
  /\ phase = "mounted"
  /\ phase' = "unmounted"
  /\ IF hasRecognition
       THEN /\ recState' = RecognitionStop(recState)
            /\ recognitionRef' = NULL
            /\ Ran("teardown", {"recognition.stop"})
       ELSE /\ UNCHANGED << recState, recognitionRef >>
            /\ Ran("teardown", {})
  /\ UNCHANGED << platform, engineState, finalHandlerRef, segmentHandlerRef,
                  synth, uiState, turn >>

\* recognition.onstart
OnStart ==
  /\ recState = "starting"
  /\ recState' = "capturing"
  /\ status' = SetState(status, "listening")
  /\ error' = SetState(error, NULL)
  /\ Ran("recognition.onstart", {})
  /\ UNCHANGED << platform, phase, isReady, refs, synth, uiState, turn >>

\* recognition.onerror; the platform ends the session after an error
OnError(code) ==
  /\ recState \in {"starting", "capturing", "stopping"}
  /\ recState' = "ending"
  /\ status' = SetState(status, "error")
  /\ error' = SetState(error, code)
  /\ Ran("recognition.onerror", {})
  /\ UNCHANGED << platform, phase, isReady, refs, synth, uiState, turn >>

\* recognition.onend
StatusAfterEndAlwaysIdle(prev) == "idle"
StatusAfterEnd(prev) == IF prev = "speaking" THEN prev ELSE "idle"

OnEnd ==
  /\ recState \in {"capturing", "stopping", "ending"}
  /\ recState' = "inactive"
  /\ status' = SetState(status, StatusAfterEnd(status))
  /\ Ran("recognition.onend", {})
  /\ UNCHANGED << platform, phase, error, isReady, refs, synth, uiState, turn >>

\* ------------------------------------------------------------- VoiceAssistant
\* generateResponse of @/lib/assistant: a pure function of the text; only the
\* shape of its result matters here (a reply text, an optional follow-up)
generateResponse(text) ==
  [ text |-> <<"r">>,
    followUp |-> IF Len(text) > 1 THEN <<"f">> ELSE <<" ">> ]

\* whether a call of generateResponse throws (the response-failure of the
\* error taxonomy)
ResponseFailure == BOOLEAN

\* handleResponse: the reply Message built from the generator's output
Combined(output) ==
  IF Trim(output.followUp) # <<>>
    THEN output.text \o <<"\n", "\n">> \o output.followUp
    ELSE output.text

\* the emptiness test of handleUserTurn (!trimmed) and of onFinal (transcript.trim())
IsBlankNever(content) == FALSE
IsBlank(content) == Trim(content) = <<>>

\* the Send button's disabled attribute
SendDisabledOnError == Trim(draft) = <<>> \/ isThinking \/ status = "error"
SendDisabled == Trim(draft) = <<>> \/ isThinking

\* capabilities.microphone
MicrophoneAlways == TRUE
Microphone == isReady

IsListening == status = "listening"

FreeTurns == { t \in TurnIds : turn[t].pc = "free" }
Delayed == { t \in TurnIds : turn[t].pc = "delay" }
ActiveTurns == { t \in TurnIds : turn[t].pc # "free" }

\* room for one more turn within the bounds of the model
Room == FreeTurns # {} /\ Len(messages) + Cardinality(Delayed) + 2 <= MaxLog

NewTurn == CHOOSE t \in FreeTurns : \A u \in FreeTurns : t <= u

\* pushMessage
PushMessageAsUser(log, role, content) == Append(log, [role |-> "user", content |-> content])
PushMessagePrepend(log, role, content) == << [role |-> role, content |-> content] >> \o log
PushMessage(log, role, content) == Append(log, [role |-> role, content |-> content])

\* handleUserTurn followed by handleResponse up to its first await;
\* fails: generateResponse throws
HandleUserTurn(content, fails) ==
  LET trimmed == Trim(content) IN
  IF IsBlank(content)
    THEN UNCHANGED << messages, draft, isThinking, turn >>
    ELSE /\ messages' = SetState(messages, PushMessage(messages, "user", trimmed))
         /\ draft' = SetState(draft, <<>>)
         /\ IF fails
              THEN UNCHANGED << isThinking, turn >>
              ELSE /\ isThinking' = SetState(isThinking, TRUE)
                   /\ turn' = [turn EXCEPT ![NewTurn] =
                                 [pc |-> "delay",
                                  reply |-> Combined(generateResponse(trimmed))]]

HandleUserTurnCalls(content) ==
  IF IsBlank(content) THEN {"handleUserTurn"}
  ELSE {"handleUserTurn", "pushMessage", "generateResponse"}

\* the textarea's onChange
TypeDraft(d) ==
  /\ phase \in {"init", "mounted"}
  /\ d # draft
  /\ draft' = d
  /\ Ran("setDraft", {})
  /\ UNCHANGED << platform, phase, engineState, refs, recState, synth,
                  messages, interimTranscript, isThinking, turn >>

\* handleFormSubmit, reached through the Send button
HandleFormSubmit(fails) ==
  /\ phase \in {"init", "mounted"}
  /\ ~SendDisabled
  /\ Room
  /\ HandleUserTurn(draft, fails)
  /\ Ran("handleFormSubmit", HandleUserTurnCalls(draft))
  /\ UNCHANGED << platform, phase, engineState, refs, recState, synth,
                  interimTranscript >>

\* recognition.start(): throws while a session is already started
StartThrows == recState # "inactive"

\* toggleListening, with startListening and stopListening
ToggleListening ==
  /\ phase \in {"init", "mounted"}
  /\ IF ~Microphone
       THEN /\ Ran("toggleListening", {})
            /\ UNCHANGED << engineState, refs, recState >>
       ELSE IF IsListening
       THEN /\ IF recognitionRef # NULL
                 THEN /\ recState' = RecognitionStop(recState)
                      /\ Ran("toggleListening", {"stopListening", "recognition.stop"})
                 ELSE /\ UNCHANGED recState
                      /\ Ran("toggleListening", {"stopListening"})
            /\ UNCHANGED << engineState, refs >>
       ELSE IF recognitionRef = NULL
       THEN /\ Ran("toggleListening", {"startListening"})
            /\ UNCHANGED << engineState, refs, recState >>
       ELSE /\ finalHandlerRef' = "onFinal"
            /\ segmentHandlerRef' = "onSegment"
            /\ Ran("toggleListening", {"startListening", "recognition.start"})
            /\ UNCHANGED << recognitionRef, isReady >>
            /\ IF StartThrows
                 THEN /\ status' = SetState(status, "error")
                      /\ error' = SetState(error, "InvalidStateError")
                      /\ UNCHANGED recState
                 ELSE /\ recState' = "starting"
                      /\ UNCHANGED << status, error >>
  /\ UNCHANGED << platform, phase, synth, uiState, turn >>

\* ------------------------------------------------------------- recognition.onresult
\* the loop of onresult from position i (1-based) of the result list:
\* transcriptSegments, finalTranscript and isFinal
RECURSIVE TranscriptSegments(_, _)
TranscriptSegments(results, i) ==
  IF i > Len(results) THEN <<>>
  ELSE << Trim(results[i].transcript) >> \o TranscriptSegments(results, i + 1)

RECURSIVE FinalTranscriptAll(_, _)
FinalTranscriptAll(results, i) ==
  IF i > Len(results) THEN <<>>
  ELSE Trim(results[i].transcript) \o <<" ">> \o FinalTranscriptAll(results, i + 1)

RECURSIVE FinalTranscript(_, _)
FinalTranscript(results, i) ==
  IF i > Len(results) THEN <<>>
  ELSE (IF results[i].isFinal THEN Trim(results[i].transcript) \o <<" ">> ELSE <<>>)
       \o FinalTranscript(results, i + 1)

BatchIsFinalAlways(results, i) == TRUE
BatchIsFinal(results, i) == \E k \in i..Len(results) : results[k].isFinal

\* toggleListening's onFinal, registered in finalHandlerRef
OnFinal(transcript, fails) ==
  IF ~IsBlank(transcript)
    THEN HandleUserTurn(transcript, fails)
    ELSE UNCHANGED << messages, draft, isThinking, turn >>

OnFinalCalls(transcript) ==
  IF ~IsBlank(transcript) THEN {"onFinal"} \cup HandleUserTurnCalls(transcript)
  ELSE {"onFinal"}

\* the non-continuous recognizer ends its session after a final result
OnResult(ev, fails) ==
  LET first == ev.resultIndex + 1
      interim == Trim(Join(TranscriptSegments(ev.results, first)))
      isFinal == BatchIsFinal(ev.results, first)
      final == Trim(FinalTranscript(ev.results, first))
      segmentCalled == segmentHandlerRef # NULL
      finalCalled == isFinal /\ finalHandlerRef # NULL
      rejects == finalCalled /\ ~IsBlank(final) /\ fails
  IN
  /\ recState \in {"capturing", "stopping"}
  /\ (finalCalled /\ ~IsBlank(final)) => Room
  /\ (fails => finalCalled /\ ~IsBlank(final))
  /\ recState' = IF \E k \in first..Len(ev.results) : ev.results[k].isFinal
                   THEN "ending" ELSE recState
  /\ lastOp' = "recognition.onresult"
  /\ batch' = SubSeq(ev.results, first, Len(ev.results))
  /\ segmentArgs' = IF segmentCalled
                      THEN << [interimTranscript |-> interim, isFinal |-> isFinal] >>
                      ELSE <<>>
  /\ finalArgs' = IF finalCalled THEN << final >> ELSE <<>>
  /\ calls' = (IF segmentCalled THEN {"onSegment"} ELSE {})
                \cup (IF finalCalled THEN OnFinalCalls(final) ELSE {})
  /\ interimTranscript' =
       SetState(interimTranscript,
                IF finalCalled THEN <<>>
                ELSE IF segmentCalled THEN interim
                ELSE interimTranscript)
  /\ status' = SetState(status,
                        IF rejects THEN "error"
                        ELSE IF finalCalled THEN "processing"
                        ELSE status)
  /\ IF finalCalled
       THEN OnFinal(final, fails)
       ELSE UNCHANGED << messages, draft, isThinking, turn >>
  /\ UNCHANGED << platform, phase, error, isReady, refs, synth >>

\* ------------------------------------------------------------- speak
\* synth.cancel() then synth.speak(utterance): the queue of the synthesizer
SpeakQueueNoCancel(queue, u) == Append(queue, u)
SpeakQueue(queue, u) == Append(<<>>, u)

Range(q) == { q[k] : k \in 1..Len(q) }

\* handleResponse after the thinking delay: push the reply, call speak
ThinkingDelayElapsedIdleEarly(t) ==
  /\ turn[t].pc = "delay"
  /\ messages' = SetState(messages, PushMessage(messages, "assistant", turn[t].reply))
  /\ IF ~hasSynth
       THEN /\ isThinking' = SetState(isThinking, FALSE)
            /\ turn' = [turn EXCEPT ![t] = FreeTurn]
            /\ Ran("handleResponse", {"pushMessage", "speak"})
            /\ UNCHANGED << status, synth >>
       ELSE /\ synthQueue' = SpeakQueue(synthQueue, t)
            /\ synthCancelled' = synthCancelled \cup (Range(synthQueue) \ Range(synthQueue'))
            /\ status' = SetState(status, "speaking")
            /\ turn' = [turn EXCEPT ![t].pc = "awaitSpeak"]
            /\ Ran("handleResponse", {"pushMessage", "speak", "synth.cancel", "synth.speak"})
            /\ isThinking' = SetState(isThinking, FALSE)
  /\ UNCHANGED << platform, phase, error, isReady, refs, recState, draft,
                  interimTranscript >>

ThinkingDelayElapsed(t) ==
  /\ turn[t].pc = "delay"
  /\ messages' = SetState(messages, PushMessage(messages, "assistant", turn[t].reply))
  /\ IF ~hasSynth
       THEN /\ isThinking' = SetState(isThinking, FALSE)
            /\ turn' = [turn EXCEPT ![t] = FreeTurn]
            /\ Ran("handleResponse", {"pushMessage", "speak"})
            /\ UNCHANGED << status, synth >>
       ELSE /\ synthQueue' = SpeakQueue(synthQueue, t)
            /\ synthCancelled' = synthCancelled \cup (Range(synthQueue) \ Range(synthQueue'))
            /\ status' = SetState(status, "speaking")
            /\ turn' = [turn EXCEPT ![t].pc = "awaitSpeak"]
            /\ Ran("handleResponse", {"pushMessage", "speak", "synth.cancel", "synth.speak"})
            /\ UNCHANGED isThinking
  /\ UNCHANGED << platform, phase, error, isReady, refs, recState, draft,
                  interimTranscript >>

\* utterance.onend and utterance.onerror: which of them resolve the promise
ResolvesOnEndOnly(handler) == handler = "utterance.onend"
Resolves(handler) == handler \in {"utterance.onend", "utterance.onerror"}

\* the rest of speak and of handleResponse once the promise has resolved
UtteranceEvent(t, handler) ==
  /\ turn[t].pc = "awaitSpeak"
  /\ IF Resolves(handler)
       THEN /\ status' = SetState(status, "idle")
            /\ isThinking' = SetState(isThinking, FALSE)
            /\ turn' = [turn EXCEPT ![t] = FreeTurn]
       ELSE UNCHANGED << status, isThinking, turn >>
  /\ Ran(handler, {})
  /\ UNCHANGED << platform, phase, error, isReady, refs, recState, messages,
                  draft, interimTranscript >>

\* the utterance at the head of the queue finishes
UtteranceEnd(t) ==
  /\ synthQueue # <<>> /\ Head(synthQueue) = t
  /\ synthQueue' = Tail(synthQueue)
  /\ UNCHANGED synthCancelled
  /\ UtteranceEvent(t, "utterance.onend")

\* the utterance at the head of the queue fails
UtteranceError(t) ==
  /\ synthQueue # <<>> /\ Head(synthQueue) = t
  /\ synthQueue' = Tail(synthQueue)
  /\ UNCHANGED synthCancelled
  /\ UtteranceEvent(t, "utterance.onerror")

\* an utterance removed by synth.cancel() gets its error event
UtteranceCancelled(t) ==
  /\ t \in synthCancelled
  /\ synthCancelled' = synthCancelled \ {t}
  /\ UNCHANGED synthQueue
  /\ UtteranceEvent(t, "utterance.onerror")

Next ==
  \/ Mount
  \/ Teardown
  \/ OnStart
  \/ \E code \in ErrorCodes : OnError(code)
  \/ OnEnd
  \/ \E d \in Drafts : TypeDraft(d)
  \/ \E fails \in ResponseFailure : HandleFormSubmit(fails)
  \/ ToggleListening
  \/ \E ev \in SessionEvents, fails \in ResponseFailure : OnResult(ev, fails)
  \/ \E t \in TurnIds : ThinkingDelayElapsed(t)
  \/ \E t \in TurnIds : UtteranceEnd(t)
  \/ \E t \in TurnIds : UtteranceError(t)
  \/ \E t \in TurnIds : UtteranceCancelled(t)


Spec == Init /\ [][Next]_vars

\* the recognition sessions alone, with recognition events of any shape (result
\* lists of up to MaxResults results, any start index); generateResponse does
\* not fail, and the response cycles a final transcript starts stay suspended at
\* their thinking delay
NextResult ==
  \/ Mount
  \/ Teardown
  \/ ToggleListening
  \/ OnStart
  \/ \E code \in ErrorCodes : OnError(code)
  \/ OnEnd
  \/ \E ev \in RecognitionEvents : OnResult(ev, FALSE)

ResultSpec == Init /\ [][NextResult]_vars

\* the synthesizer finishes every utterance it was given and reports every
\* utterance it dropped
Fairness ==
  \A t \in TurnIds :
    /\ WF_vars(UtteranceEnd(t))
    /\ WF_vars(UtteranceCancelled(t))

LiveSpec == Init /\ [][Next]_vars /\ Fairness

\* ------------------------------------------------------------- properties
Busy == status \in {"processing", "speaking"}

\* the recognizer is capturing: its start event has fired, its end has not
Capturing == recState \in {"capturing", "stopping"}

\* C1: toggleListening never calls startListening (and so recognition.start)
\* while status is processing or speaking.
C1_NoStartWhileBusy ==
  [][ (lastOp' = "toggleListening" /\ "startListening" \in calls') => ~Busy ]_vars

\* C2: the recognizer is never capturing while a synthesis utterance is in flight.
C2_TurnExclusive == ~(Capturing /\ synthQueue # <<>>)

\* C3: at most one response cycle is in progress at any time.
C3_OneTurnAtATime == Cardinality(ActiveTurns) <= 1

\* C4: at most one utterance is in flight at any time, and a speak call leaves
\* its own utterance alone in the queue, every earlier one cancelled.
C4_SpeakSerialized ==
  /\ [](Len(synthQueue) <= 1)
  /\ [][ ("synth.speak" \in calls')
          => /\ Len(synthQueue') = 1
             /\ Range(synthQueue) \subseteq synthCancelled' ]_vars

C4_Witness ==
  /\ "synth.speak" \in calls
  /\ Len(synthQueue) = 1
  /\ synthCancelled # {}

\* C5: every speak call that is awaiting its utterance eventually resolves,
\* also when a later speak call superseded it or the component was torn down.
C5_SpeakResolves ==
  \A t \in TurnIds : (turn[t].pc = "awaitSpeak") ~> (turn[t].pc # "awaitSpeak")

C5_Witness ==
  /\ phase = "unmounted"
  /\ lastOp = "utterance.onerror"
  /\ synthQueue # <<>>
  /\ Cardinality(ActiveTurns) = 1

\* the final results of a batch, and the text the claim expects for them
Finals(b) == SelectSeq(b, LAMBDA r : r.isFinal)
TrimmedTranscripts(b) == [k \in 1..Len(b) |-> Trim(b[k].transcript)]
ExpectedFinal(b) == Trim(Join(TrimmedTranscripts(Finals(b))))

\* C6: for a batch with at least one final result the final-transcript callback
\* is invoked exactly once, with the trimmed, space-joined trimmed transcripts of
\* the final results only.
C6_FinalOnceWithFinals ==
  (lastOp = "recognition.onresult" /\ Finals(batch) # <<>>)
    => finalArgs = << ExpectedFinal(batch) >>

C6_Witness ==
  /\ lastOp = "recognition.onresult"
  /\ \E i, j \in 1..Len(batch) :
       /\ batch[i].isFinal /\ ~batch[j].isFinal
       /\ Trim(batch[j].transcript) # <<>>
  /\ finalArgs = << <<"a">> >>

\* C7: for a batch without a final result the final-transcript callback is not
\* invoked, status is left as it was, and only the segment callback is invoked.
C7_NoFinalNoCallback ==
  [][ (lastOp' = "recognition.onresult" /\ Finals(batch') = <<>>)
        => /\ finalArgs' = <<>>
           /\ status' = status
           /\ calls' = {"onSegment"} ]_vars

C7_Witness ==
  /\ lastOp = "recognition.onresult"
  /\ batch # <<>> /\ Finals(batch) = <<>>
  /\ Len(segmentArgs) = 1

\* C8: a final transcript or a submitted text that trims to the empty string
\* appends no Message and makes no call to generateResponse.
C8_EmptyInputGuard ==
  [][ ( \/ (lastOp' = "recognition.onresult"
              /\ finalArgs' # <<>> /\ Trim(finalArgs'[1]) = <<>>)
        \/ (lastOp' = "handleFormSubmit" /\ Trim(draft) = <<>>) )
        => /\ messages' = messages
           /\ "generateResponse" \notin calls' ]_vars

C8_Witness ==
  /\ lastOp = "recognition.onresult"
  /\ finalArgs = << <<>> >>
  /\ "onFinal" \in calls

\* C9: toggleListening while capabilities.microphone is false changes neither
\* status, error, the log nor the registered callbacks, and calls neither
\* startListening nor stopListening.
C9_ToggleWithoutMicrophone ==
  [][ (lastOp' = "toggleListening" /\ ~isReady)
        => /\ UNCHANGED << status, error, messages, finalHandlerRef, segmentHandlerRef >>
           /\ calls' = {} ]_vars

C9_Witness ==
  /\ lastOp = "toggleListening"
  /\ status = "unsupported"
  /\ ~isReady
  /\ calls = {}

\* C10: once status is unsupported it stays unsupported.
C10_UnsupportedForever ==
  [][ status = "unsupported" => status' = "unsupported" ]_vars

\* a step in which generateResponse was called and threw: no response cycle began
ResponseFailed == "generateResponse" \in calls' /\ turn' = turn

\* the input of the turn a step handles: the draft, or the final transcript
TurnInput == IF lastOp' = "handleFormSubmit" THEN draft ELSE finalArgs'[1]

\* C11: when generateResponse fails during a turn (voice or text), the user
\* Message of the turn is in the log, no assistant Message is appended, and
\* status becomes error.
C11_ResponseFailureToError ==
  [][ (ResponseFailed /\ phase # "unmounted")
        => /\ messages' = Append(messages, [role |-> "user", content |-> Trim(TurnInput)])
           /\ status' = "error" ]_vars

\* C12: the log before a step is a prefix of the log after it, and the first
\* entry of the log is the greeting.
C12_LogAppendOnly ==
  /\ [](messages # <<>> /\ messages[1] = INITIAL_PROMPT)
  /\ [][ /\ Len(messages') >= Len(messages)
          /\ SubSeq(messages', 1, Len(messages)) = messages ]_vars

C12_Witness ==
  /\ Len(messages) >= 4
  /\ messages[2].role = "user"
  /\ messages[Len(messages)].role = "assistant"

\* the steps of a response cycle: it begins, its thinking delay ends, its speak
\* call resolves
TurnStarts(t) == turn[t].pc = "free" /\ turn'[t].pc = "delay"
ReplyDue(t) == turn[t].pc = "delay" /\ turn'[t].pc # "delay"
TurnCompletes(t) == turn[t].pc = "awaitSpeak" /\ turn'[t].pc = "free"

\* C13: a turn with non-empty trimmed input adds exactly two Messages to the log:
\* when it begins, the user Message with the trimmed input; when its delay ends,
\* the assistant Message with the reply to that input; when it completes, none.
C13_TurnAddsUserThenAssistant ==
  [][ phase # "unmounted" =>
        \A t \in TurnIds :
          /\ TurnStarts(t) =>
                /\ Trim(TurnInput) # <<>>
                /\ messages' = Append(messages, [role |-> "user", content |-> Trim(TurnInput)])
                /\ turn'[t].reply = Combined(generateResponse(Trim(TurnInput)))
          /\ ReplyDue(t) =>
                messages' = Append(messages, [role |-> "assistant", content |-> turn[t].reply])
          /\ TurnCompletes(t) => messages' = messages ]_vars

C13_Witness ==
  /\ phase = "mounted"
  /\ lastOp = "utterance.onend"
  /\ ActiveTurns = {}
  /\ Len(messages) = 3
  /\ messages[2] = [role |-> "user", content |-> <<"a">>]
  /\ messages[3] = [role |-> "assistant", content |-> <<"r">>]

\* C14: after teardown no recognition event changes status or invokes the
\* registered final-transcript or segment handler.
C14_QuietAfterTeardown ==
  [][ phase = "unmounted"
        => /\ status' = status
           /\ "onFinal" \notin calls'
           /\ "onSegment" \notin calls' ]_vars

\* C15: after stopListening has stopped a listening session that had no final
\* result, no recognition event of that session invokes the final-transcript
\* callback or adds a Message.
C15_StopEmitsNoFinal ==
  [][ (phase = "mounted" /\ recState = "stopping" /\ lastOp' = "recognition.onresult")
        => /\ finalArgs' = <<>>
           /\ messages' = messages ]_vars

\* C16: whenever status is error, a non-empty draft can be submitted.
C16_TextAvailableOnError ==
  (phase # "unmounted" /\ status = "error" /\ Trim(draft) # <<>>) => ~SendDisabled

\* C16 as amended: whenever status is error and no response cycle is in progress
\* (isThinking is false), a non-empty draft can be submitted, and submitting it
\* appends the user Message with the trimmed draft and begins a response cycle.
C16_TextAvailableWhenNotThinking ==
  (phase # "unmounted" /\ status = "error" /\ ~isThinking /\ Trim(draft) # <<>> /\ Room)
    => ENABLED ( /\ HandleFormSubmit(FALSE)
                 /\ messages' = Append(messages, [role |-> "user", content |-> Trim(draft)])
                 /\ \E t \in TurnIds : TurnStarts(t) )

C16_Witness ==
  /\ lastOp = "handleFormSubmit"
  /\ status = "error"
  /\ isThinking
  /\ messages[Len(messages)] = [role |-> "user", content |-> <<"a">>]

\* C17: when the recognizer reports end-of-capture, status becomes idle unless
\* it is speaking, in which case it stays speaking.
C17_EndKeepsSpeaking ==
  [][ (lastOp' = "recognition.onend" /\ phase # "unmounted")
        => status' = IF status = "speaking" THEN "speaking" ELSE "idle" ]_vars

C17_Witness ==
  /\ phase = "mounted"
  /\ lastOp = "recognition.onend"
  /\ status = "speaking"
  /\ synthQueue # <<>>

\* C18: status error never holds with a null error message.
C18_ErrorHasMessage ==
  status = "error" => error # NULL

\* a speak call of turn t hands its utterance to the synthesizer
SynthesisStarts(t) == t \notin Range(synthQueue) /\ t \in Range(synthQueue')

\* the speak call that turn t awaits resolves (without synthesis: at once)
SpeakResolved(t) ==
  \/ turn[t].pc = "awaitSpeak" /\ turn'[t].pc = "free"
  \/ ~hasSynth /\ turn[t].pc = "delay" /\ turn'[t].pc = "free"

\* C19: within each turn the assistant reply is in the log by the time its
\* synthesis starts, and isThinking is cleared only in a step in which an awaited
\* speak call has resolved, never while the turn still awaits it.
C19_ReplyThenSpeakThenIdle ==
  [][ phase # "unmounted" =>
        /\ \A t \in TurnIds :
             SynthesisStarts(t) =>
               /\ messages' = Append(messages, [role |-> "assistant", content |-> turn[t].reply])
               /\ turn'[t].pc = "awaitSpeak"
               /\ isThinking' = isThinking
        /\ (isThinking /\ ~isThinking') => \E t \in TurnIds : SpeakResolved(t) ]_vars

C19_Witness ==
  /\ phase = "mounted"
  /\ lastOp = "utterance.onend"
  /\ ~isThinking
  /\ ActiveTurns = {}
  /\ synthQueue = <<>>
  /\ messages[Len(messages)].role = "assistant"

\* C20: whenever a synthesis utterance is in flight in the mounted component,
\* status is speaking.
C20_StatusTracksSynthesis ==
  (phase = "mounted" /\ hasRecognition /\ synthQueue # <<>>) => status = "speaking"

\* C21: while an accepted voice turn still awaits its thinking delay and status
\* is processing, the end-of-capture event leaves status at processing.
C21_ProcessingCoversTurn ==
  [][ (phase = "mounted" /\ status = "processing" /\ Delayed # {}
         /\ lastOp' = "recognition.onend")
        => status' = "processing" ]_vars

\* C22: a non-null error message implies that status is error.
C22_ErrorAgreesWithStatus ==
  (phase = "mounted" /\ error # NULL) => status = "error"
====
